---------------------------- MODULE Spec2Model ----------------------------
(***************************************************************************)
(* Model of the docs-copilot backend: the GitLab connection state and its  *)
(* gateway handlers (gitlabController), the AI chat handler and service    *)
(* (aiController, aiService), the directory scanner with its relevance     *)
(* filter, and the parsers of the model's reply.                           *)
(*                                                                         *)
(* Text is modelled by TLA+ strings, one character per position, so that   *)
(* trimming, searching and splitting are computed character by character.  *)
(* SANY's lexer refuses U+0060 inside a string literal, so the backtick of *)
(* a markdown fence is written "^" throughout (Fence below).               *)
(***************************************************************************)
EXTENDS Integers, Sequences, FiniteSets, TLC

VARIABLES
    currentConnection,  \* gitlabController: let currentConnection
    handlers,           \* the gateway requests in flight, one record per slot
    fsys,               \* the codebase root on disk: its directory tree, Null when missing
    chat,               \* the chatWithAI request in flight
    scan,               \* a run of fetchCodebaseFiles over one directory tree
    parse               \* a run of the reply parsers over one model reply

vars == <<currentConnection, handlers, fsys, chat, scan, parse>>

-----------------------------------------------------------------------------
(* Bounds *)

\* gateway requests that may be in flight at once
MaxInFlight == 2

\* entries in the listing of the codebase root
MaxRootEntries == 2

-----------------------------------------------------------------------------
(* Strings *)

Char(s, i) == SubSeq(s, i, i)

Drop(s, n) == SubSeq(s, n + 1, Len(s))

MinOf(S) == CHOOSE i \in S : \A j \in S : i <= j

MaxOf(S) == CHOOSE i \in S : \A j \in S : j <= i

\* String.prototype.startsWith / endsWith
StartsWith(s, p) == Len(p) <= Len(s) /\ SubSeq(s, 1, Len(p)) = p

EndsWith(s, p) == Len(p) <= Len(s) /\ SubSeq(s, Len(s) - Len(p) + 1, Len(s)) = p

\* positions of s at which sub occurs, at or after from
Occurrences(s, sub, from) ==
    {i \in from..(Len(s) - Len(sub) + 1) : SubSeq(s, i, i + Len(sub) - 1) = sub}

\* String.prototype.indexOf(sub, from - 1) + 1: the first occurrence, 0 when none
IndexFrom(s, sub, from) ==
    IF Occurrences(s, sub, from) = {} THEN 0 ELSE MinOf(Occurrences(s, sub, from))

\* String.prototype.includes
Includes(s, sub) == Occurrences(s, sub, 1) # {}

\* the characters \s matches and trim() removes
WhiteSpace == {" ", "\t", "\n", "\r", "\f"}

IsSpace(c) == c \in WhiteSpace

\* String.prototype.trim
Trim(s) ==
    LET solid == {i \in 1..Len(s) : ~IsSpace(Char(s, i))}
    IN  IF solid = {} THEN "" ELSE SubSeq(s, MinOf(solid), MaxOf(solid))

UpperCase == "ABCDEFGHIJKLMNOPQRSTUVWXYZ"
LowerCase == "abcdefghijklmnopqrstuvwxyz"

LowerChar(c) ==
    IF IndexFrom(UpperCase, c, 1) = 0 THEN c ELSE Char(LowerCase, IndexFrom(UpperCase, c, 1))

RECURSIVE ToLowerCase(_)
\* String.prototype.toLowerCase
ToLowerCase(s) ==
    IF s = "" THEN "" ELSE LowerChar(Char(s, 1)) \o ToLowerCase(Drop(s, 1))

-----------------------------------------------------------------------------
(* URLs: the parts of the WHATWG URL parser that the controller reads *)

Null == [null |-> TRUE]

Letters == UpperCase \o LowerCase

\* the scheme of an absolute URL: letters up to the first ":", "" when there is none
SchemeOf(s) ==
    LET colon == IndexFrom(s, ":", 1)
    IN  IF colon <= 1 THEN ""
        ELSE IF \A i \in 1..(colon - 1) : Includes(Letters, Char(s, i))
             THEN ToLowerCase(SubSeq(s, 1, colon - 1))
             ELSE ""

\* what follows the scheme's ":" once the slashes before the authority are skipped
AfterSlashes(r) ==
    LET solid == {i \in 1..Len(r) : Char(r, i) # "/"}
    IN  IF solid = {} THEN "" ELSE SubSeq(r, MinOf(solid), Len(r))

\* new URL(input): Null when the constructor throws, else the fields read from it.
\* Leading and trailing whitespace is stripped; a URL without a scheme has no base
\* to resolve against and throws; an http(s) URL needs a non-empty host without
\* spaces; the path of an http(s) URL is "/" when empty. Ports, queries and
\* fragments do not occur in the inputs drawn here.
ParseUrl(input) ==
    LET s      == Trim(input)
        scheme == SchemeOf(s)
        rest   == AfterSlashes(Drop(s, Len(scheme) + 1))
        slash  == IndexFrom(rest, "/", 1)
        host   == IF slash = 0 THEN rest ELSE SubSeq(rest, 1, slash - 1)
        path   == IF slash = 0 THEN "/" ELSE Drop(rest, slash - 1)
    IN  IF scheme = "" THEN Null
        ELSE IF scheme \notin {"http", "https"}
             THEN [protocol |-> scheme \o ":", hostname |-> "", host |-> "",
                   pathname |-> Drop(s, Len(scheme) + 1)]
        ELSE IF host = "" \/ Includes(host, " ") THEN Null
        ELSE [protocol |-> scheme \o ":", hostname |-> ToLowerCase(host),
              host |-> ToLowerCase(host), pathname |-> path]

\* isValidGitLabUrl(url)
IsValidGitLabUrl(url) ==
    IF ParseUrl(url) = Null THEN FALSE
    ELSE /\ ParseUrl(url).protocol = "https:"
         /\ (Includes(ParseUrl(url).hostname, "gitlab") \/ Includes(url, "gitlab"))

\* pathname.replace(/^\//, '').replace(/\.git$/, '')
StripPath(pathname) ==
    LET a == IF StartsWith(pathname, "/") THEN Drop(pathname, 1) ELSE pathname
    IN  IF EndsWith(a, ".git") THEN SubSeq(a, 1, Len(a) - 4) ELSE a

\* extractProjectIdFromUrl(repoUrl): "" stands for null (an empty path is null too)
ExtractProjectIdFromUrl(repoUrl) ==
    IF ParseUrl(repoUrl) = Null THEN "" ELSE StripPath(ParseUrl(repoUrl).pathname)

\* getGitLabApiUrl(repoUrl)
GetGitLabApiUrl(repoUrl) ==
    IF ParseUrl(repoUrl) = Null THEN "https://gitlab.com/api/v4"
    ELSE ParseUrl(repoUrl).protocol \o "//" \o ParseUrl(repoUrl).host \o "/api/v4"

\* one character of encodeURIComponent: the unreserved characters pass, the
\* others of the inputs drawn here are percent-encoded
EncodeChar(c) ==
    CASE c = "/" -> "%2F"
      [] c = " " -> "%20"
      [] c = ":" -> "%3A"
      [] OTHER   -> c

RECURSIVE EncodeURIComponent(_)
EncodeURIComponent(s) ==
    IF s = "" THEN "" ELSE EncodeChar(Char(s, 1)) \o EncodeURIComponent(Drop(s, 1))

\* one character of URLSearchParams.toString()
FormChar(c) ==
    CASE c = "/" -> "%2F"
      [] c = " " -> "+"
      [] c = ":" -> "%3A"
      [] OTHER   -> c

RECURSIVE FormEncode(_)
FormEncode(s) ==
    IF s = "" THEN "" ELSE FormChar(Char(s, 1)) \o FormEncode(Drop(s, 1))

\* the value a table of <<key, value>> pairs holds for key; the tables below hold
\* what the string functions return on the inputs drawn, computed once
Lookup(table, key) == (CHOOSE r \in table : r[1] = key)[2]

-----------------------------------------------------------------------------
(* gitlabController: responses *)

NoData == [kind |-> "none"]

\* res.status(status).json({ error, message })
ErrorResponse(status, error, message) ==
    [status |-> status, success |-> FALSE, error |-> error, message |-> message,
     data |-> NoData]

\* res.status(200).json({ success: true, message, data })
OkResponse(message, data) ==
    [status |-> 200, success |-> TRUE, error |-> "", message |-> message, data |-> data]

NotConnected ==
    ErrorResponse(400, "Not connected", "Please connect to a GitLab repository first")

NoProjectId ==
    ErrorResponse(400, "Invalid repository URL",
                  "Could not extract project ID from repository URL")

-----------------------------------------------------------------------------
(* gitlabController: the inputs requests are drawn from *)

\* req.body.repoUrl; "" also stands for a missing field
RepoUrlInputs ==
    {"", "   ", "not a url",
     "https://gitlab.com/grp/proj",
     " https://gitlab.example.org/grp/proj.git ",
     "https://gitlab.com",
     "https://example.com/gitlab/x",
     "http://gitlab.com/grp/proj",
     "https://github.com/grp/proj"}

\* req.body.accessToken; "" also stands for a missing field
TokenInputs ==
    {"", "short", "abcdefghi", "glpat-abcdef", "a         ", "          "}

ConnectBodies == [repoUrl : RepoUrlInputs, accessToken : TokenInputs]

\* req.query.path of GET /files ('' by default)
PathInputs == {"", "src"}

\* req.params.filePath of GET /files/:filePath
FilePathInputs == {"", "README.md", "src/index.ts"}

\* the entries of an upstream tree listing
UpstreamTrees ==
    {<<>>,
     <<[id |-> "a1", name |-> "README.md", path |-> "README.md", type |-> "blob",
        mode |-> "100644"],
       [id |-> "b2", name |-> "src", path |-> "src", type |-> "tree",
        mode |-> "040000"]>>}

\* the body of an upstream raw file
UpstreamBodies == {"# Title\n"}

\* the statuses an upstream error response carries
HttpErrorStatuses == {400, 401, 403, 404, 429, 500}

\* error.response.data.message; "" when the body carries none
UpstreamMessages == {"", "upstream says no"}

\* what axios.get ends with: a 2xx response, an AxiosError with a response, or an
\* AxiosError without one (status 0 stands for undefined)
HttpErrors ==
    [kind : {"http"}, status : HttpErrorStatuses, message : UpstreamMessages,
     data : {NoData}]

NoResponseErrors ==
    {[kind |-> "network", status |-> 0, message |-> "", data |-> NoData],
     [kind |-> "timeout", status |-> 0, message |-> "", data |-> NoData]}

OkOutcome(d) == [kind |-> "ok", status |-> 200, message |-> "", data |-> d]

TreeOutcomes ==
    {OkOutcome(t) : t \in UpstreamTrees} \cup HttpErrors \cup NoResponseErrors

RawOutcomes ==
    {OkOutcome(b) : b \in UpstreamBodies} \cup HttpErrors \cup NoResponseErrors

\* what the probe of connectToGitLab ends with
ProbeOutcomes ==
    {OkOutcome("<html>")} \cup {e \in HttpErrors : e.status = 401 /\ e.message = ""}
        \cup {e \in NoResponseErrors : e.kind = "network"}

\* AxiosError.message
AxiosMessage(outcome) ==
    CASE outcome.kind = "http" ->
             "Request failed with status code " \o ToString(outcome.status)
      [] outcome.kind = "timeout" -> "timeout of 10000ms exceeded"
      [] OTHER -> "Network Error"

\* error.response?.data?.message || error.message
ErrorMessage(outcome) ==
    IF outcome.message # "" THEN outcome.message ELSE AxiosMessage(outcome)

-----------------------------------------------------------------------------
(* gitlabController: the handlers. A handler runs without interruption up to   *)
(* its await of axios.get and again from the call's outcome to its response;   *)
(* other requests are handled while the call is in flight.                     *)

Slots == 1..MaxInFlight

\* a slot with no request in it
Idle ==
    [op |-> "none", pc |-> "idle", body |-> Null, stored |-> Null, readUrl |-> "",
     projectId |-> "", path |-> "", calls |-> <<>>, outcome |-> Null, resp |-> <<>>]

\* the least token length connectToGitLab accepts
MinTokenLength == 10

\* connectToGitLab's validation: the 400 response it sends, Null when it passes
ConnectRejection(body) ==
    IF body.repoUrl = "" \/ body.accessToken = ""
    THEN ErrorResponse(400, "Missing required fields",
                       "Both repoUrl and accessToken are required")
    ELSE IF Trim(body.repoUrl) = "" \/ ~IsValidGitLabUrl(body.repoUrl)
    THEN ErrorResponse(400, "Invalid repository URL",
                       "Please provide a valid GitLab repository URL")
    ELSE IF Trim(body.accessToken) = "" \/ Len(body.accessToken) < MinTokenLength
    THEN ErrorResponse(400, "Invalid access token",
                       "Please provide a valid GitLab access token")
    ELSE Null

\* the record connectToGitLab assigns to currentConnection
NewConnection(body) ==
    [repoUrl |-> Trim(body.repoUrl), accessToken |-> Trim(body.accessToken)]

ConnectRejectionTable == {<<body, ConnectRejection(body)>> : body \in ConnectBodies}

NewConnectionTable == {<<body, NewConnection(body)>> : body \in ConnectBodies}

Rejected(body) == Lookup(ConnectRejectionTable, body)

Accepted(body) == Lookup(NewConnectionTable, body)

\* a connect that stores the record before the token is validated
ConnectStoreEarly(body, conn) ==
    IF Rejected(body) = Null \/ Rejected(body).error = "Invalid access token"
    THEN Accepted(body)
    ELSE conn

\* currentConnection after connectToGitLab has run up to its await or its return
ConnectStore(body, conn) ==
    IF Rejected(body) # Null THEN conn ELSE Accepted(body)

\* an upstream call: axios.get(url, { headers: { 'PRIVATE-TOKEN': token } })
Call(url, token) == [url |-> url, token |-> token]

\* a validation branch without its return: the 400 is sent and the handler goes
\* on to the probe
ConnectRejectedNoReturn(body) ==
    [Idle EXCEPT !.op = "connect", !.pc = "await", !.body = body,
                 !.resp = <<Rejected(body)>>,
                 !.calls = <<Call(Accepted(body).repoUrl, Accepted(body).accessToken)>>]

\* the slot after a validation branch of connectToGitLab: the 400 is sent and the
\* handler returns
ConnectRejected(body) ==
    [Idle EXCEPT !.op = "connect", !.pc = "done", !.body = body,
                 !.resp = <<Rejected(body)>>]

\* connectToGitLab, from the request to the 400 response or to the await of the probe
ConnectStart(i, body) ==
    /\ handlers[i].pc = "idle"
    /\ currentConnection' = ConnectStore(body, currentConnection)
    /\ handlers' = [handlers EXCEPT ![i] =
         IF Rejected(body) # Null
         THEN ConnectRejected(body)
         ELSE [Idle EXCEPT !.op = "connect", !.pc = "await", !.body = body,
                           !.stored = Accepted(body),
                           !.calls = <<Call(Accepted(body).repoUrl,
                                            Accepted(body).accessToken)>>]]
    /\ UNCHANGED <<fsys, chat, scan, parse>>

\* connectToGitLab's response after the probe: reading currentConnection.repoUrl
\* throws when the record is null, and the outer catch answers 500
ConnectResponse(conn) ==
    IF conn = Null
    THEN ErrorResponse(500, "Internal server error", "Failed to process GitLab connection")
    ELSE OkResponse("GitLab connection details received successfully",
                    [kind |-> "connect", repoUrl |-> conn.repoUrl, connected |-> TRUE])

\* a catch block of the probe that drops the record when the probe fails
ProbeStoreClears(conn, outcome) == IF outcome.kind = "ok" THEN conn ELSE Null

\* currentConnection after the try/catch around the probe: its outcome is logged
\* in either branch and nothing is assigned
ProbeStore(conn, outcome) == conn

\* connectToGitLab, from the probe's outcome (either is only logged) to the response
ConnectResume(i, outcome) ==
    /\ handlers[i].op = "connect" /\ handlers[i].pc = "await"
    /\ currentConnection' = ProbeStore(currentConnection, outcome)
    /\ handlers' = [handlers EXCEPT
          ![i].pc = "done", ![i].outcome = outcome,
          ![i].resp = Append(handlers[i].resp,
                             ConnectResponse(ProbeStore(currentConnection, outcome)))]
    /\ UNCHANGED <<fsys, chat, scan, parse>>

\* a disconnect that answers but leaves the record in place
DisconnectKeeps(conn) == conn

\* currentConnection after disconnectFromGitLab
DisconnectStore(conn) == IF conn = Null THEN conn ELSE Null

\* disconnectFromGitLab's response
DisconnectResponse(conn) ==
    IF conn = Null
    THEN ErrorResponse(400, "Not connected", "No active GitLab connection found")
    ELSE OkResponse("Disconnected from GitLab successfully",
                    [kind |-> "disconnect", connected |-> FALSE])

\* disconnectFromGitLab: it has no await and runs as one step
Disconnect(i) ==
    /\ handlers[i].pc = "idle"
    /\ currentConnection' = DisconnectStore(currentConnection)
    /\ handlers' = [handlers EXCEPT ![i] =
         [Idle EXCEPT !.op = "disconnect", !.pc = "done",
                      !.resp = <<DisconnectResponse(currentConnection)>>]]
    /\ UNCHANGED <<fsys, chat, scan, parse>>

\* the URLs a connect can store
StoredUrls == {Accepted(body).repoUrl : body \in {b \in ConnectBodies : Rejected(b) = Null}}

ProjectIdTable == {<<url, ExtractProjectIdFromUrl(url)>> : url \in StoredUrls}

ProjectId(url) == Lookup(ProjectIdTable, url)

\* the URL getRepositoryFiles requests: the tree endpoint and its URLSearchParams
TreeUrl(repoUrl, path) ==
    GetGitLabApiUrl(repoUrl) \o "/projects/"
        \o EncodeURIComponent(ExtractProjectIdFromUrl(repoUrl)) \o "/repository/tree"
        \o "?ref=main&recursive=false&per_page=100"
        \o (IF Trim(path) # "" THEN "&path=" \o FormEncode(path) ELSE "")

\* the URL getRepositoryFileContent requests: the raw-file endpoint
RawUrl(repoUrl, filePath) ==
    GetGitLabApiUrl(repoUrl) \o "/projects/"
        \o EncodeURIComponent(ExtractProjectIdFromUrl(repoUrl)) \o "/repository/files/"
        \o EncodeURIComponent(filePath) \o "/raw" \o "?ref=main"

TreeUrlTable ==
    {<<<<url, path>>, TreeUrl(url, path)>> : url \in StoredUrls, path \in PathInputs}

RawUrlTable ==
    {<<<<url, path>>, RawUrl(url, path)>> : url \in StoredUrls, path \in FilePathInputs}

\* handlers without the check of currentConnection: reading conn.repoUrl throws
\* and the catch block answers 500
GatewayRejectionUnchecked(conn, filePath, isContent) ==
    IF conn = Null
    THEN ErrorResponse(500, "Internal server error", "Failed to fetch repository files")
    ELSE IF isContent /\ filePath = ""
    THEN ErrorResponse(400, "Missing file path", "File path parameter is required")
    ELSE IF ProjectId(conn.repoUrl) = "" THEN NoProjectId
    ELSE Null

\* what getRepositoryFiles and getRepositoryFileContent answer before any upstream
\* call: the 400 response, Null when the call is to be made
GatewayRejection(conn, filePath, isContent) ==
    IF conn = Null THEN NotConnected
    ELSE IF isContent /\ filePath = ""
    THEN ErrorResponse(400, "Missing file path", "File path parameter is required")
    ELSE IF ProjectId(conn.repoUrl) = "" THEN NoProjectId
    ELSE Null

\* the slot after the first part of a gateway handler, up to its 400 response or
\* to its await of axios.get(url)
GatewayStart(op, path, conn, url) ==
    IF GatewayRejection(conn, path, op = "content") # Null
    THEN [Idle EXCEPT !.op = op, !.pc = "done", !.path = path,
                      !.resp = <<GatewayRejection(conn, path, op = "content")>>]
    ELSE [Idle EXCEPT !.op = op, !.pc = "await", !.path = path,
                      !.readUrl = conn.repoUrl,
                      !.projectId = ProjectId(conn.repoUrl),
                      !.calls = <<Call(url, conn.accessToken)>>]

\* getRepositoryFiles, from the request to its await
FilesStart(i, path) ==
    /\ handlers[i].pc = "idle"
    /\ handlers' = [handlers EXCEPT ![i] =
         GatewayStart("files", path, currentConnection,
                      IF currentConnection = Null THEN ""
                      ELSE Lookup(TreeUrlTable, <<currentConnection.repoUrl, path>>))]
    /\ UNCHANGED <<currentConnection, fsys, chat, scan, parse>>

\* getRepositoryFileContent, from the request to its await
ContentStart(i, filePath) ==
    /\ handlers[i].pc = "idle"
    /\ handlers' = [handlers EXCEPT ![i] =
         GatewayStart("content", filePath, currentConnection,
                      IF currentConnection = Null THEN ""
                      ELSE Lookup(RawUrlTable, <<currentConnection.repoUrl, filePath>>))]
    /\ UNCHANGED <<currentConnection, fsys, chat, scan, parse>>

\* gitlabFiles.map(...): blob becomes file, anything else folder
TransformFiles(files) ==
    [k \in DOMAIN files |->
        [id |-> files[k].id, name |-> files[k].name, path |-> files[k].path,
         type |-> IF files[k].type = "blob" THEN "file" ELSE "folder",
         mode |-> files[k].mode]]

\* a catch block without the 404 branch
FilesErrorNo404(outcome) ==
    IF outcome.status = 401
    THEN ErrorResponse(401, "Authentication failed",
                       "Invalid access token or insufficient permissions")
    ELSE IF outcome.status = 403
    THEN ErrorResponse(403, "Access denied",
                       "Insufficient permissions to access this repository")
    ELSE ErrorResponse(IF outcome.status # 0 THEN outcome.status ELSE 500,
                       "GitLab API error",
                       "GitLab API request failed: " \o ErrorMessage(outcome))

\* getRepositoryFiles' catch block for a failed axios.get (axios.isAxiosError)
FilesErrorResponse(outcome) ==
    IF outcome.status = 401
    THEN ErrorResponse(401, "Authentication failed",
                       "Invalid access token or insufficient permissions")
    ELSE IF outcome.status = 404
    THEN ErrorResponse(404, "Repository not found", "Repository or branch not found")
    ELSE IF outcome.status = 403
    THEN ErrorResponse(403, "Access denied",
                       "Insufficient permissions to access this repository")
    ELSE ErrorResponse(IF outcome.status # 0 THEN outcome.status ELSE 500,
                       "GitLab API error",
                       "GitLab API request failed: " \o ErrorMessage(outcome))

\* getRepositoryFiles' response to a 2xx: reading currentConnection.repoUrl throws
\* when the record is null; that TypeError is no AxiosError
FilesOkResponse(slot, conn, files) ==
    IF conn = Null
    THEN ErrorResponse(500, "Internal server error", "Failed to fetch repository files")
    ELSE OkResponse("Successfully fetched " \o ToString(Len(files)) \o " files",
                    [kind |-> "files", repoUrl |-> conn.repoUrl,
                     projectId |-> slot.projectId, ref |-> "main",
                     path |-> IF slot.path # "" THEN slot.path ELSE "/",
                     files |-> TransformFiles(files)])

\* getRepositoryFiles, from the outcome of axios.get to the response
FilesResume(i, outcome) ==
    /\ handlers[i].op = "files" /\ handlers[i].pc = "await"
    /\ handlers' = [handlers EXCEPT ![i].pc = "done", ![i].outcome = outcome, ![i].resp =
         Append(handlers[i].resp,
                IF outcome.kind = "ok"
                THEN FilesOkResponse(handlers[i], currentConnection, outcome.data)
                ELSE FilesErrorResponse(outcome))]
    /\ UNCHANGED <<currentConnection, fsys, chat, scan, parse>>

\* getRepositoryFileContent's catch block for a failed axios.get
ContentErrorResponse(outcome) ==
    IF outcome.status = 401
    THEN ErrorResponse(401, "Authentication failed",
                       "Invalid access token or insufficient permissions")
    ELSE IF outcome.status = 404
    THEN ErrorResponse(404, "File not found", "File not found in repository or branch")
    ELSE ErrorResponse(IF outcome.status # 0 THEN outcome.status ELSE 500,
                       "GitLab API error",
                       "Failed to fetch file content: " \o ErrorMessage(outcome))

\* getRepositoryFileContent's response to a 2xx: it reads no shared state
ContentOkResponse(slot, body) ==
    OkResponse("File content retrieved successfully",
               [kind |-> "content", filePath |-> slot.path, ref |-> "main",
                content |-> body, size |-> Len(body)])

\* getRepositoryFileContent, from the outcome of axios.get to the response
ContentResume(i, outcome) ==
    /\ handlers[i].op = "content" /\ handlers[i].pc = "await"
    /\ handlers' = [handlers EXCEPT ![i].pc = "done", ![i].outcome = outcome, ![i].resp =
         Append(handlers[i].resp,
                IF outcome.kind = "ok"
                THEN ContentOkResponse(handlers[i], outcome.data)
                ELSE ContentErrorResponse(outcome))]
    /\ UNCHANGED <<currentConnection, fsys, chat, scan, parse>>

\* the response has been delivered and the slot takes the next request
Recycle(i) ==
    /\ handlers[i].pc = "done"
    /\ handlers' = [handlers EXCEPT ![i] = Idle]
    /\ UNCHANGED <<currentConnection, fsys, chat, scan, parse>>

-----------------------------------------------------------------------------
(* aiController: the codebase root, scanDirectory and the relevance filter      *)

\* an entry of a directory on disk. fails says which system call on it throws:
\* "stat" (statSync of the entry) or "read" (readdirSync or readFileSync of it)
File(name, size) ==
    [name |-> name, kind |-> "file", size |-> size, fails |-> "none", children |-> <<>>]

Folder(name, children) ==
    [name |-> name, kind |-> "dir", size |-> 0, fails |-> "none", children |-> children]

Failing(entry, call) == [entry EXCEPT !.fails = call]

\* the extensions a case-insensitive suffix pattern lists
BinaryExtensions == {"exe", "dll", "so", "dylib", "bin", "img", "iso"}

MediaExtensions ==
    {"jpg", "jpeg", "png", "gif", "bmp", "svg", "ico", "mp4", "mp3", "wav", "avi"}

\* /\.(a|b|...)$/i.test(s)
HasExtensionIn(s, exts) ==
    \E e \in exts :
        Len(e) < Len(s) /\ ToLowerCase(SubSeq(s, Len(s) - Len(e), Len(s))) = "." \o e

\* ignorePatterns.some(pattern => pattern.test(s)) for one string s
MatchesIgnorePattern(s) ==
    \/ StartsWith(s, ".")
    \/ \E w \in {"node_modules", "vendor", "venv", "__pycache__", "dist", "build",
                 "out", "target", ".vscode", ".idea", ".DS_Store", "Thumbs.db"} :
          Includes(s, w)
    \/ \E w \in {".log", "package-lock.json", "yarn.lock", "composer.lock"} :
          EndsWith(s, w)
    \/ HasExtensionIn(s, BinaryExtensions)
    \/ HasExtensionIn(s, MediaExtensions)

\* an ignore policy that tests the relative path alone
ShouldIgnorePathOnly(fileName, relativePath) == MatchesIgnorePattern(relativePath)

\* shouldIgnoreFile(fileName, relativePath)
ShouldIgnoreFile(fileName, relativePath) ==
    MatchesIgnorePattern(fileName) \/ MatchesIgnorePattern(relativePath)

\* path.relative(basePath, path.join(dirPath, item)), dirPath being rel under basePath
RelativePath(rel, item) == IF rel = "" THEN item ELSE rel \o "/" \o item

\* the CodebaseFile pushed for an entry
CodebaseFolder(relativePath, item) ==
    [path |-> relativePath, name |-> item.name, type |-> "folder"]

CodebaseFile(relativePath, item) ==
    [path |-> relativePath, name |-> item.name, type |-> "file", size |-> item.size]

RECURSIVE ScanDirectory(_, _)
RECURSIVE ScanItems(_, _, _)

\* the for loop of scanDirectory from item k on: the entries it pushes. A statSync
\* that throws leaves the loop for the catch block, which ends the directory
ScanItems(items, k, rel) ==
    IF k > Len(items) THEN <<>>
    ELSE IF ShouldIgnoreFile(items[k].name, RelativePath(rel, items[k].name))
    THEN ScanItems(items, k + 1, rel)
    ELSE IF items[k].fails = "stat" THEN <<>>
    ELSE IF items[k].kind = "dir"
    THEN <<CodebaseFolder(RelativePath(rel, items[k].name), items[k])>>
            \o ScanDirectory(items[k], RelativePath(rel, items[k].name))
            \o ScanItems(items, k + 1, rel)
    ELSE <<CodebaseFile(RelativePath(rel, items[k].name), items[k])>>
            \o ScanItems(items, k + 1, rel)

\* scanDirectory(dirPath, basePath) for the directory dir at rel under basePath: a
\* readdirSync that throws (the directory is unreadable, or is not there: Null) is
\* caught and the list stays empty
ScanDirectory(dir, rel) ==
    IF dir = Null \/ dir.fails = "read" THEN <<>> ELSE ScanItems(dir.children, 1, rel)

\* the last path segment, as path.extname sees it
BaseName(p) ==
    IF Includes(p, "/") THEN Drop(p, MaxOf(Occurrences(p, "/", 1))) ELSE p

\* path.extname(p): from the last "." of the base name on, "" when there is none
\* or when the only one leads the name
ExtName(p) ==
    LET base == BaseName(p)
        dots == Occurrences(base, ".", 1)
    IN  IF dots = {} \/ MaxOf(dots) = 1 THEN "" ELSE Drop(base, MaxOf(dots) - 1)

RelevantExtensions ==
    {".js", ".jsx", ".ts", ".tsx", ".py", ".java", ".cpp", ".c", ".h",
     ".cs", ".php", ".rb", ".go", ".rs", ".swift", ".kt", ".scala",
     ".json", ".yaml", ".yml", ".toml", ".xml", ".md", ".txt",
     ".sql", ".sh", ".bat", ".ps1", ".dockerfile", ".env"}

\* a filter predicate that forgets the test of file.type
IsRelevantAnyType(file) ==
    \/ ToLowerCase(ExtName(file.path)) \in RelevantExtensions
    \/ \E w \in {"readme", "config", "package", "makefile"} :
          Includes(ToLowerCase(file.name), w)
    \/ ExtName(file.path) = ""

\* the predicate of files.filter(...) in fetchCodebaseFiles
IsRelevant(file) ==
    /\ file.type = "file"
    /\ \/ ToLowerCase(ExtName(file.path)) \in RelevantExtensions
       \/ \E w \in {"readme", "config", "package", "makefile"} :
             Includes(ToLowerCase(file.name), w)
       \/ ExtName(file.path) = ""

RECURSIVE Filter(_, _)
\* Array.prototype.filter, from element k on, with the predicate of fetchCodebaseFiles
Filter(files, k) ==
    IF k > Len(files) THEN <<>>
    ELSE IF IsRelevant(files[k]) THEN <<files[k]>> \o Filter(files, k + 1)
    ELSE Filter(files, k + 1)

\* files.filter(...) of fetchCodebaseFiles
RelevantFiles(files) == Filter(files, 1)

\* a fetchCodebaseFiles that does not look whether the root exists
CodebaseFolderTakenForGranted(root) == FALSE

\* !fs.existsSync(codebasePath)
CodebaseFolderMissing(root) == root = Null

\* fetchCodebaseFiles(): Null stands for its throw, which a missing root causes
FetchCodebaseFiles(root) ==
    IF CodebaseFolderMissing(root) THEN Null ELSE RelevantFiles(ScanDirectory(root, ""))

-----------------------------------------------------------------------------
(* aiService: the parsers of the model's reply. Each regular expression is     *)
(* followed the way the matcher runs it: the leftmost start that lets the       *)
(* whole pattern match, greedy \s*, and a lazy group grown one character at a   *)
(* time until what follows it matches.                                          *)

\* the three backticks of a markdown fence
Fence == "^^^"

\* sub occurs in s at position i
At(s, i, sub) ==
    i >= 1 /\ i + Len(sub) - 1 <= Len(s) /\ SubSeq(s, i, i + Len(sub) - 1) = sub

RECURSIVE SkipSpaces(_, _)
\* where a greedy \s* that starts at position p ends
SkipSpaces(s, p) ==
    IF p <= Len(s) /\ IsSpace(Char(s, p)) THEN SkipSpaces(s, p + 1) ELSE p

\* where ([\s\S]*?)(?=stop|$) ends when it starts at position p: the first position
\* at which stop occurs, or the end of the text
LazyUntilMarker(s, p, stop) ==
    MinOf({e \in p..(Len(s) + 1) : e > Len(s) \/ At(s, e, stop)})

NoMatch == [found |-> FALSE, group |-> ""]

\* s.match(/marker\s*([\s\S]*?)(?=stop|$)/): whether it matches, and its group 1
SectionMatch(s, marker, stop) ==
    LET m == IndexFrom(s, marker, 1)
        q == SkipSpaces(s, m + Len(marker))
    IN  IF m = 0 THEN NoMatch
        ELSE [found |-> TRUE,
              group |-> SubSeq(s, q, LazyUntilMarker(s, q, stop) - 1)]

\* where ([\s\S]*?) ends when \s*``` is to follow and it starts at position p: the
\* first position from which white space and then a fence follow; 0 when no
\* position lets the rest match
LazyUntilFence(s, p) ==
    LET ends == {e \in p..(Len(s) + 1) : At(s, SkipSpaces(s, e), Fence)}
    IN  IF ends = {} THEN 0 ELSE MinOf(ends)

\* the match of ```markdown\s*([\s\S]*?)\s*``` after the CONTENT: at position c and
\* its \s*
FenceMatchAt(s, c) ==
    LET open  == SkipSpaces(s, c + Len("CONTENT:"))
        body  == SkipSpaces(s, open + Len(Fence \o "markdown"))
        close == LazyUntilFence(s, body)
    IN  IF At(s, open, Fence \o "markdown") /\ close # 0
        THEN [found |-> TRUE, group |-> SubSeq(s, body, close - 1)]
        ELSE NoMatch

\* s.match(/CONTENT:\s*```markdown\s*([\s\S]*?)\s*```/)
ContentMatch(s) ==
    LET starts == {c \in Occurrences(s, "CONTENT:", 1) : FenceMatchAt(s, c).found}
    IN  IF starts = {} THEN NoMatch ELSE FenceMatchAt(s, MinOf(starts))

\* content: undefined
Absent == [present |-> FALSE, text |-> ""]

Present(text) == [present |-> TRUE, text |-> text]

\* a parser that does not trim what it extracts
ParseAIResponseUntrimmed(text, action) ==
    IF action = "chat" THEN [explanation |-> text, content |-> Absent]
    ELSE [explanation |->
              IF SectionMatch(text, "EXPLANATION:", "CONTENT:").found
              THEN SectionMatch(text, "EXPLANATION:", "CONTENT:").group
              ELSE text,
          content |->
              IF ContentMatch(text).found
              THEN Present(ContentMatch(text).group)
              ELSE Absent]

\* parseAIResponse(text, action)
ParseAIResponse(text, action) ==
    IF action = "chat" THEN [explanation |-> text, content |-> Absent]
    ELSE [explanation |->
              IF SectionMatch(text, "EXPLANATION:", "CONTENT:").found
              THEN Trim(SectionMatch(text, "EXPLANATION:", "CONTENT:").group)
              ELSE text,
          content |->
              IF ContentMatch(text).found
              THEN Present(Trim(ContentMatch(text).group))
              ELSE Absent]

RECURSIVE Split(_, _)
\* String.prototype.split(sep), sep one character
Split(s, sep) ==
    IF IndexFrom(s, sep, 1) = 0 THEN <<s>>
    ELSE <<SubSeq(s, 1, IndexFrom(s, sep, 1) - 1)>> \o Split(Drop(s, IndexFrom(s, sep, 1)), sep)

\* the entries parseFileAnalysis keeps at most
MaxRelevantFiles == 15

\* Array.prototype.slice(0, n)
Slice(seq, n) == SubSeq(seq, 1, IF Len(seq) < n THEN Len(seq) ELSE n)

\* the predicate of .filter(line => line && !line.startsWith('[') && ...)
IsFileLine(line) == line # "" /\ ~StartsWith(line, "[") /\ ~StartsWith(line, "//")

RECURSIVE TrimmedFileLines(_, _)
\* .map(line => line.trim()).filter(...) from line k on
TrimmedFileLines(lines, k) ==
    IF k > Len(lines) THEN <<>>
    ELSE IF IsFileLine(Trim(lines[k]))
    THEN <<Trim(lines[k])>> \o TrimmedFileLines(lines, k + 1)
    ELSE TrimmedFileLines(lines, k + 1)

\* the chain without its .slice(0, 15)
RelevantFileLinesUncapped(filesText) == TrimmedFileLines(Split(filesText, "\n"), 1)

\* filesText.split('\n').map(...).filter(...).slice(0, 15)
RelevantFileLines(filesText) ==
    Slice(TrimmedFileLines(Split(filesText, "\n"), 1), MaxRelevantFiles)

\* sub, in lower case, occurs in s at position i whatever the case of s there
AtIgnoringCase(s, i, sub) ==
    /\ i >= 1
    /\ i + Len(sub) - 1 <= Len(s)
    /\ ToLowerCase(SubSeq(s, i, i + Len(sub) - 1)) = sub

\* response.match(/CONFIDENCE:\s*(high|medium|low)/i): group 1 in lower case, ""
\* when there is no match; the i flag makes the marker case-insensitive too
ConfidenceMatch(response) ==
    LET levels == {"high", "medium", "low"}
        level(c) == {l \in levels :
                        AtIgnoringCase(response,
                                       SkipSpaces(response, c + Len("confidence:")), l)}
        starts == {c \in 1..Len(response) :
                      /\ Char(response, c) \in {"c", "C"}
                      /\ AtIgnoringCase(response, c, "confidence:")
                      /\ level(c) # {}}
    IN  IF starts = {} THEN "" ELSE CHOOSE l \in level(MinOf(starts)) : TRUE

\* parseFileAnalysis(response)
ParseFileAnalysis(response) ==
    [relevantFiles |->
         RelevantFileLines(
             IF SectionMatch(response, "RELEVANT_FILES:", "CONFIDENCE:").found
             THEN Trim(SectionMatch(response, "RELEVANT_FILES:", "CONFIDENCE:").group)
             ELSE ""),
     reasoning |->
         IF SectionMatch(response, "REASONING:", "RELEVANT_FILES:").found
         THEN Trim(SectionMatch(response, "REASONING:", "RELEVANT_FILES:").group)
         ELSE "Analysis completed",
     confidence |->
         IF ConfidenceMatch(response) # "" THEN ConfidenceMatch(response) ELSE "medium"]

-----------------------------------------------------------------------------
(* The gateway, one request after another: every request is answered before    *)
(* the next one is taken, and the inputs are drawn from the full sets.          *)

ChatIdle == [pc |-> "idle"]
ScanIdle == [pc |-> "idle"]
ParseIdle == [pc |-> "idle"]

Init ==
    /\ currentConnection = Null
    /\ handlers = [i \in Slots |-> Idle]
    /\ fsys = Null
    /\ chat = ChatIdle
    /\ scan = ScanIdle
    /\ parse = ParseIdle

Next ==
    \/ \E body \in ConnectBodies : ConnectStart(1, body)
    \/ \E outcome \in ProbeOutcomes : ConnectResume(1, outcome)
    \/ Disconnect(1)
    \/ \E path \in PathInputs : FilesStart(1, path)
    \/ \E outcome \in TreeOutcomes : FilesResume(1, outcome)
    \/ \E filePath \in FilePathInputs : ContentStart(1, filePath)
    \/ \E outcome \in RawOutcomes : ContentResume(1, outcome)
    \/ Recycle(1)

Spec == Init /\ [][Next]_vars

-----------------------------------------------------------------------------
(* The gateway with requests interleaved at their awaits. The inputs are the    *)
(* ones that tell the interleavings apart: two connections, a rejected connect, *)
(* and a call that succeeds, fails with a status or fails without one.          *)

ConcBodies ==
    {b \in ConnectBodies :
        /\ b.repoUrl \in {"https://gitlab.com/grp/proj", "https://example.com/gitlab/x"}
        /\ b.accessToken \in {"glpat-abcdef", "short"}}

ConcTreeOutcomes ==
    {o \in TreeOutcomes : \/ o.kind = "ok" /\ o.data # <<>>
                          \/ o.kind = "http" /\ o.status = 404 /\ o.message = ""
                          \/ o.kind = "network"}

ConcRawOutcomes ==
    {o \in RawOutcomes : \/ o.kind = "ok"
                         \/ o.kind = "http" /\ o.status = 404 /\ o.message = ""
                         \/ o.kind = "network"}

NextConc ==
    \/ \E i \in Slots, body \in ConcBodies : ConnectStart(i, body)
    \/ \E i \in Slots, outcome \in ProbeOutcomes : ConnectResume(i, outcome)
    \/ \E i \in Slots : Disconnect(i)
    \/ \E i \in Slots : FilesStart(i, "")
    \/ \E i \in Slots, outcome \in ConcTreeOutcomes : FilesResume(i, outcome)
    \/ \E i \in Slots : ContentStart(i, "README.md")
    \/ \E i \in Slots, outcome \in ConcRawOutcomes : ContentResume(i, outcome)
    \/ \E i \in Slots : Recycle(i)

SpecConc == Init /\ [][NextConc]_vars

-----------------------------------------------------------------------------
(* Properties of the gateway *)

\* this step is slot i taking a request of kind op and running its handler up to
\* the response or to the await
Handles(i, op) ==
    handlers[i].pc = "idle" /\ handlers'[i].op = op /\ handlers'[i].pc # "idle"

\* this step is slot i resuming the handler of kind op with the outcome of its call
Resumes(i, op) ==
    handlers[i].op = op /\ handlers[i].pc = "await" /\ handlers'[i].pc = "done"

\* the one response slot i has sent
Answer(slot) == slot.resp[1]

Answered(slot, status, error) ==
    /\ Len(slot.resp) = 1
    /\ Answer(slot).status = status
    /\ Answer(slot).error = error

(* C1: with requests handled one after another, a disconnect answers 200 and    *)
(* clears the ConnectionRecord exactly when a record exists and answers 400     *)
(* 'Not connected' otherwise, leaving no record either way; a record comes into *)
(* being only by a connect that passes validation (which then answers 200) and  *)
(* goes away only by a disconnect. Hence after a successful connect the first   *)
(* disconnect succeeds and every further one, with no successful connect in     *)
(* between, fails with 'Not connected'.                                         *)
C1_DisconnectExactlyOnce ==
    [][\A i \in Slots :
        /\ Handles(i, "disconnect") =>
              /\ currentConnection' = Null
              /\ handlers'[i].pc = "done"
              /\ handlers'[i].calls = <<>>
              /\ IF currentConnection # Null
                 THEN Answered(handlers'[i], 200, "") /\ Answer(handlers'[i]).success
                 ELSE Answered(handlers'[i], 400, "Not connected")
        /\ Handles(i, "connect") /\ handlers'[i].pc = "await" =>
              currentConnection' # Null
        /\ Resumes(i, "connect") =>
              Answered(handlers'[i], 200, "") /\ currentConnection' # Null
        /\ (currentConnection = Null /\ currentConnection' # Null) =>
              \E j \in Slots : Handles(j, "connect") /\ handlers'[j].pc = "await"
        /\ (currentConnection # Null /\ currentConnection' = Null) =>
              \E j \in Slots : Handles(j, "disconnect")
      ]_vars

\* a disconnect has answered 200 and the record is gone
C1_Witness ==
    /\ handlers[1].op = "disconnect" /\ handlers[1].pc = "done"
    /\ Answered(handlers[1], 200, "")
    /\ currentConnection = Null

\* the URL inputs that are not https URLs naming gitlab
InvalidUrlInputs ==
    {"   ", "not a url", "http://gitlab.com/grp/proj", "https://github.com/grp/proj"}

\* the connect bodies the validation is to reject: a missing field, an invalid
\* URL, or a token shorter than 10 characters
ToBeRejected(body) ==
    \/ body.repoUrl = "" \/ body.accessToken = ""
    \/ body.repoUrl \in InvalidUrlInputs
    \/ Len(body.accessToken) < 10

(* C2: a connect request with a missing field, an invalid URL or a token        *)
(* shorter than 10 characters is answered 400 at once, and every connect that   *)
(* is answered by its validation (400, no upstream call) leaves the stored      *)
(* ConnectionRecord exactly as it was, whether one existed or not.              *)
C2_RejectedConnectKeepsRecord ==
    [][\A i \in Slots : Handles(i, "connect") =>
        /\ ToBeRejected(handlers'[i].body) => handlers'[i].pc = "done"
        /\ handlers'[i].pc = "done" =>
              /\ Len(handlers'[i].resp) = 1
              /\ Answer(handlers'[i]).status = 400
              /\ handlers'[i].calls = <<>>
              /\ currentConnection' = currentConnection
      ]_vars

\* a connect with a token of length 5 was answered 400 while a record was stored
C2_Witness ==
    /\ currentConnection # Null
    /\ handlers[1].op = "connect" /\ handlers[1].pc = "done"
    /\ handlers[1].body.accessToken = "short"
    /\ Answered(handlers[1], 400, "Invalid access token")

(* C3: a listTree or getFileContent request that starts while no                *)
(* ConnectionRecord exists is answered 400 'Not connected' in that same step,   *)
(* and no upstream HTTP call is issued for it.                                  *)
C3_NoRecordNoUpstreamCall ==
    [][\A i \in Slots :
        (Handles(i, "files") \/ Handles(i, "content")) /\ currentConnection = Null =>
            /\ handlers'[i].pc = "done"
            /\ Answered(handlers'[i], 400, "Not connected")
            /\ handlers'[i].calls = <<>>
      ]_vars

\* a getFileContent request for a named file was refused for want of a record
C3_Witness ==
    /\ currentConnection = Null
    /\ handlers[1].op = "content" /\ handlers[1].pc = "done"
    /\ handlers[1].path = "src/index.ts"
    /\ Answered(handlers[1], 400, "Not connected")
    /\ handlers[1].calls = <<>>

\* the upstream message, when the error body carries one, ends the response's
Carries(resp, outcome) ==
    outcome.message # "" => EndsWith(resp.message, outcome.message)

(* C5: listTree maps an upstream HTTP error status s as 401 -> 401              *)
(* 'Authentication failed', 403 -> 403 'Access denied', 404 -> 404 'Repository  *)
(* not found', and any other s -> status s with 'GitLab API error' and the      *)
(* upstream message.                                                            *)
C5_ListTreeStatusMapping ==
    \A i \in Slots :
        (/\ handlers[i].op = "files" /\ handlers[i].pc = "done"
         /\ handlers[i].outcome # Null /\ handlers[i].outcome.kind = "http") =>
            LET s == handlers[i].outcome.status
            IN  /\ s = 401 => Answered(handlers[i], 401, "Authentication failed")
                /\ s = 403 => Answered(handlers[i], 403, "Access denied")
                /\ s = 404 => Answered(handlers[i], 404, "Repository not found")
                /\ s \notin {401, 403, 404} =>
                      /\ Answered(handlers[i], s, "GitLab API error")
                      /\ Carries(Answer(handlers[i]), handlers[i].outcome)

\* listTree got an upstream 404 and answered 404 'Repository not found'
C5_Witness ==
    /\ handlers[1].op = "files" /\ handlers[1].pc = "done"
    /\ handlers[1].outcome # Null /\ handlers[1].outcome.kind = "http"
    /\ handlers[1].outcome.status = 404
    /\ Answered(handlers[1], 404, "Repository not found")

(* C6: getFileContent maps an upstream HTTP error status as listTree does: 401  *)
(* -> authentication failed, 403 -> access denied, 404 -> file not found, and   *)
(* only the other statuses fall into the generic 'GitLab API error' category.   *)
C6_ContentStatusMapping ==
    \A i \in Slots :
        (/\ handlers[i].op = "content" /\ handlers[i].pc = "done"
         /\ handlers[i].outcome # Null /\ handlers[i].outcome.kind = "http") =>
            LET s == handlers[i].outcome.status
            IN  /\ s = 401 => Answered(handlers[i], 401, "Authentication failed")
                /\ s = 403 => Answered(handlers[i], 403, "Access denied")
                /\ s = 404 => Answered(handlers[i], 404, "File not found")
                /\ Answer(handlers[i]).error = "GitLab API error" =>
                      s \notin {401, 403, 404}

(* C11: for a connect request that passes validation, the record it stored and *)
(* the response it returns do not depend on the probe: whether the probe         *)
(* succeeds, is refused or gets no response, the record stays the one this       *)
(* request stored and the response is the 200 that echoes its trimmed URL.       *)
C11_ProbeOutcomeIgnored ==
    [][\A i \in Slots : Resumes(i, "connect") =>
        /\ currentConnection = handlers[i].stored
        /\ currentConnection' = handlers[i].stored
        /\ Answered(handlers'[i], 200, "")
        /\ Answer(handlers'[i]).success
        /\ Answer(handlers'[i]).data.connected
        /\ Answer(handlers'[i]).data.repoUrl = Trim(handlers[i].body.repoUrl)
      ]_vars

\* a connect whose probe got no response has answered 200 and its record is stored
C11_Witness ==
    /\ handlers[1].op = "connect" /\ handlers[1].pc = "done"
    /\ handlers[1].outcome # Null /\ handlers[1].outcome.kind = "network"
    /\ handlers[1].body.repoUrl = " https://gitlab.example.org/grp/proj.git "
    /\ Answered(handlers[1], 200, "")
    /\ currentConnection = handlers[1].stored
    /\ currentConnection.repoUrl = "https://gitlab.example.org/grp/proj.git"

(* C12: every connect request that passes validation answers 200 with          *)
(* connected = true and data.repoUrl equal to the trimmed URL that this same     *)
(* request stored, whatever connect and disconnect requests are handled while    *)
(* its probe is in flight.                                                       *)
C12_ConnectAnswersOwnUrl ==
    \A i \in Slots :
        (handlers[i].op = "connect" /\ handlers[i].pc = "done"
         /\ handlers[i].stored # Null) =>
            /\ Answered(handlers[i], 200, "")
            /\ Answer(handlers[i]).data.connected
            /\ Answer(handlers[i]).data.repoUrl = handlers[i].stored.repoUrl
            /\ handlers[i].stored.repoUrl = Trim(handlers[i].body.repoUrl)

(* C13: all reads of the ConnectionRecord made by one listTree execution        *)
(* observe the same record: a listTree whose upstream call succeeds answers 200  *)
(* and echoes the repository URL from which its project id and its upstream      *)
(* call were built, whatever connect and disconnect requests arrive while the    *)
(* call is in flight.                                                            *)
C13_ListTreeReadsOneRecord ==
    \A i \in Slots :
        (/\ handlers[i].op = "files" /\ handlers[i].pc = "done"
         /\ handlers[i].outcome # Null /\ handlers[i].outcome.kind = "ok") =>
            /\ Answered(handlers[i], 200, "")
            /\ Answer(handlers[i]).data.repoUrl = handlers[i].readUrl
            /\ Answer(handlers[i]).data.projectId = ProjectId(handlers[i].readUrl)

-----------------------------------------------------------------------------
(* The scanner and the relevance filter over the directory trees drawn below   *)

\* the entries a codebase root may list
RootPool ==
    <<File("README.md", 120),
      Folder(".git", <<File("config", 90)>>),
      Folder("node_modules", <<Folder("pkg", <<File("index.js", 10)>>)>>),
      Folder("src", <<File("index.ts", 300), File("MAIN.TS", 50), File("notes.pdf", 900)>>),
      Folder("lib", <<Folder(".cache", <<File("data.json", 5)>>), File("util.ts", 40)>>),
      Folder("routes", <<File("api.ts", 70)>>),
      File("Dockerfile", 200),
      File("app.log", 1000),
      Failing(File("gone.ts", 10), "stat"),
      Failing(Folder("locked", <<File("a.ts", 1)>>), "read")>>

\* the listings of at most MaxRootEntries entries of the pool, in any order
RootListings ==
    UNION {{[k \in 1..n |-> RootPool[pick[k]]] :
               pick \in {f \in [1..n -> DOMAIN RootPool] :
                            \A a, b \in 1..n : a # b => f[a] # f[b]}} :
           n \in 0..MaxRootEntries}

\* the tree of the specification's example
ExampleTree ==
    Folder("codebase",
           <<Folder(".git", <<File("HEAD", 23)>>),
             Folder("node_modules", <<Folder("pkg", <<File("index.js", 10)>>)>>),
             Folder("src", <<File("index.ts", 300)>>),
             File("README.md", 120)>>)

Trees ==
    {Folder("codebase", listing) : listing \in RootListings}
        \cup {ExampleTree, Failing(Folder("codebase", <<File("README.md", 120)>>), "read")}

\* lists the filter is applied to directly; the scanner produces none of the first
ExampleLists ==
    {<<[path |-> "a.png", name |-> "a.png", type |-> "file", size |-> 1],
       [path |-> "a.ts", name |-> "a.ts", type |-> "file", size |-> 2],
       [path |-> "notes", name |-> "notes", type |-> "folder"]>>,
     <<[path |-> "Makefile.in", name |-> "Makefile.in", type |-> "file", size |-> 3],
       [path |-> "x/b.TXT", name |-> "b.TXT", type |-> "file", size |-> 4],
       [path |-> "x", name |-> "x", type |-> "folder"],
       [path |-> "x/c.csv", name |-> "c.csv", type |-> "file", size |-> 5]>>}

InitScan ==
    /\ currentConnection = Null
    /\ handlers = [i \in Slots |-> Idle]
    /\ fsys \in Trees
    /\ chat = ChatIdle
    /\ scan = ScanIdle
    /\ parse = ParseIdle

\* fetchCodebaseFiles over the tree on disk: the scan, then the filter
FetchFromDisk ==
    /\ scan.pc = "idle"
    /\ scan' = [pc |-> "done", from |-> "disk", files |-> ScanDirectory(fsys, ""),
                relevant |-> FetchCodebaseFiles(fsys)]
    /\ UNCHANGED <<currentConnection, handlers, fsys, chat, parse>>

\* the filter of fetchCodebaseFiles applied to a list
FilterList(files) ==
    /\ scan.pc = "idle"
    /\ scan' = [pc |-> "done", from |-> "list", files |-> files,
                relevant |-> RelevantFiles(files)]
    /\ UNCHANGED <<currentConnection, handlers, fsys, chat, parse>>

NextScan ==
    \/ FetchFromDisk
    \/ \E files \in ExampleLists : FilterList(files)

SpecScan == InitScan /\ [][NextScan]_vars

-----------------------------------------------------------------------------
(* Properties of the scanner and the filter *)

RECURSIVE Descendants(_, _, _)
\* every entry below the directory dir at rel, with whether it matches the ignore
\* policy itself (ignored) and whether a directory above it does (under)
Descendants(dir, rel, under) ==
    UNION {LET e   == dir.children[k]
               p   == RelativePath(rel, e.name)
               ign == MatchesIgnorePattern(e.name) \/ MatchesIgnorePattern(p)
           IN  {[path |-> p, name |-> e.name, kind |-> e.kind, ignored |-> ign,
                 under |-> under]}
                   \cup (IF e.kind = "dir" THEN Descendants(e, p, under \/ ign) ELSE {})
           : k \in DOMAIN dir.children}

RECURSIVE AnyFailure(_)
\* some readdir or stat below dir, or of dir itself, throws
AnyFailure(dir) ==
    dir.fails # "none" \/ \E k \in DOMAIN dir.children : AnyFailure(dir.children[k])

TypeOf(kind) == IF kind = "dir" THEN "folder" ELSE "file"

(* C7: the scanner's output holds no entry whose name or relative path matches  *)
(* the ignore policy and no descendant of an ignored directory (nothing at or   *)
(* under .git or node_modules), and no entry twice; when no readdir or stat of  *)
(* the tree fails, every non-ignored entry whose ancestors are all non-ignored  *)
(* appears in it, with the right file/folder kind.                              *)
C7_ScannerHonoursIgnorePolicy ==
    (scan.pc = "done" /\ scan.from = "disk") =>
        LET out  == scan.files
            kept == {e \in Descendants(fsys, "", FALSE) : ~e.ignored /\ ~e.under}
        IN  /\ \A k \in DOMAIN out :
                  /\ ~MatchesIgnorePattern(out[k].name)
                  /\ ~MatchesIgnorePattern(out[k].path)
                  /\ \A w \in {".git", "node_modules"} :
                        out[k].path # w /\ ~StartsWith(out[k].path, w \o "/")
                  /\ \E e \in kept : /\ e.path = out[k].path
                                     /\ e.name = out[k].name
                                     /\ TypeOf(e.kind) = out[k].type
            /\ \A j, k \in DOMAIN out : j # k => out[j].path # out[k].path
            /\ ~AnyFailure(fsys) =>
                  \A e \in kept : \E k \in DOMAIN out :
                      out[k].path = e.path /\ out[k].type = TypeOf(e.kind)

\* the example tree (.git/, node_modules/, src/index.ts, README.md) was scanned
\* to src (folder), src/index.ts (file), README.md (file)
C7_Witness ==
    /\ scan.pc = "done" /\ scan.from = "disk"
    /\ fsys = ExampleTree
    /\ [k \in DOMAIN scan.files |-> <<scan.files[k].path, scan.files[k].type>>]
          = << <<"src", "folder">>, <<"src/index.ts", "file">>, <<"README.md", "file">> >>

NamesKeyword(file) ==
    \E w \in {"readme", "config", "package", "makefile"} :
        Includes(ToLowerCase(file.name), w)

\* the entries the filter is to return, the extension compared as it is written
WantedAsWritten(file) ==
    /\ file.type = "file"
    /\ (ExtName(file.path) \in RelevantExtensions \/ NamesKeyword(file)
        \/ ExtName(file.path) = "")

\* the entries the filter is to return, the extension compared in lower case
WantedLowerCased(file) ==
    /\ file.type = "file"
    /\ (ToLowerCase(ExtName(file.path)) \in RelevantExtensions \/ NamesKeyword(file)
        \/ ExtName(file.path) = "")

\* out is the subsequence of in made of the elements that satisfy Wanted
Selects(out, in, Wanted(_)) ==
    LET idx == {j \in DOMAIN in : Wanted(in[j])}
    IN  /\ Len(out) = Cardinality(idx)
        /\ \A k \in DOMAIN out :
              out[k] = in[CHOOSE j \in idx : Cardinality({m \in idx : m <= j}) = k]

(* C8, as claimed: the Relevance Filter returns exactly the input entries with  *)
(* kind = file whose extension is in the allow-list, or whose name contains     *)
(* readme/config/package/makefile case-insensitively, or that have no           *)
(* extension, in their input order.                                             *)
C8_FilterAsClaimed ==
    scan.pc = "done" => Selects(scan.relevant, scan.files, WantedAsWritten)

(* C8, amended: the Relevance Filter returns exactly the input entries with     *)
(* kind = file whose extension, lower-cased, is in the allow-list, or whose     *)
(* name contains readme/config/package/makefile case-insensitively, or that     *)
(* have no extension; folders are never returned and the output is a            *)
(* subsequence of the input.                                                    *)
C8_FilterLowerCasesExtension ==
    scan.pc = "done" =>
        /\ Selects(scan.relevant, scan.files, WantedLowerCased)
        /\ \A k \in DOMAIN scan.relevant : scan.relevant[k].type = "file"

\* the list a.png (file), a.ts (file), notes (folder) was filtered to a.ts alone
C8_Witness ==
    /\ scan.pc = "done" /\ scan.from = "list"
    /\ [k \in DOMAIN scan.files |-> scan.files[k].name] = <<"a.png", "a.ts", "notes">>
    /\ [k \in DOMAIN scan.relevant |-> scan.relevant[k].name] = <<"a.ts">>

RECURSIVE Surviving(_, _)
\* the paths below dir that lie neither at or under an ignored entry, nor at or
\* under an entry whose stat fails, nor under a directory whose readdir fails
Surviving(dir, rel) ==
    IF dir.fails = "read" THEN {}
    ELSE UNION {LET e == dir.children[k]
                    p == RelativePath(rel, e.name)
                IN  IF MatchesIgnorePattern(e.name) \/ MatchesIgnorePattern(p)
                       \/ e.fails = "stat"
                    THEN {}
                    ELSE {p} \cup (IF e.kind = "dir" THEN Surviving(e, p) ELSE {})
                : k \in DOMAIN dir.children}

(* C14: when a readdir or a stat fails during a scan, the scan still returns a  *)
(* list, and only the subtree of the entry that failed is missing from it:      *)
(* every other non-ignored entry, the siblings listed after the failing entry   *)
(* included, is present.                                                         *)
C14_OnlyFailingSubtreeMissing ==
    (scan.pc = "done" /\ scan.from = "disk") =>
        \A p \in Surviving(fsys, "") : \E k \in DOMAIN scan.files : scan.files[k].path = p

-----------------------------------------------------------------------------
(* The reply parsers on their own: a reply arrives, one parser is applied.     *)

\* the pieces a reply to a content-bearing prompt is made of
ReplyTokens == {"EXPLANATION:", "CONTENT:", Fence \o "markdown", Fence, " x\n"}

MaxTokens == 4

RECURSIVE Concat(_)
Concat(seq) == IF seq = <<>> THEN "" ELSE seq[1] \o Concat(Tail(seq))

\* every text of at most MaxTokens pieces
TokenTexts ==
    {Concat(seq) : seq \in UNION {[1..n -> ReplyTokens] : n \in 0..MaxTokens}}

\* replies in the shape the prompts ask for, with parts missing or doubled
ShapedTexts ==
    {Concat(<<e, ew, eb, c, cw, o, b, f, t>>) :
        e \in {"", "EXPLANATION:"}, ew \in {"", "\n"},
        eb \in {"Did X\n\n", "Did X "},
        c \in {"", "CONTENT:"}, cw \in {"", "\n"},
        o \in {Fence \o "markdown", Fence}, b \in {"\n# Title\n", " "},
        f \in {"", Fence},
        t \in {"", "\nCONTENT:\n" \o Fence \o "markdown\nB\n" \o Fence}}

ResponseReplies ==
    {[kind |-> "response", text |-> t, lines |-> <<>>] :
        t \in TokenTexts \cup ShapedTexts \cup {"No markers here."}}

\* the actions whose reply parseAIResponse reads
ParsedActions == {"chat", "edit", "generate"}

MaxFileLines == 24

Label(k) == SubSeq("abcdefghijklmnopqrstuvwxyz", k, k)

\* line k of a RELEVANT_FILES: section of the given shape
LineAt(shape, k) ==
    CASE shape = "plain" -> "src/" \o Label(k) \o ".ts"
      [] shape = "noisy" ->
            IF k = 1 THEN "[List the file paths]"
            ELSE IF k % 6 = 0 THEN ""
            ELSE IF k % 7 = 0 THEN "// skip " \o Label(k)
            ELSE "src/" \o Label(k) \o ".ts"
      [] shape = "indented" ->
            IF k % 5 = 0 THEN "  [x]" ELSE "  lib/" \o Label(k) \o ".py "

RECURSIVE Join(_, _)
\* Array.prototype.join(sep)
Join(seq, sep) ==
    IF seq = <<>> THEN ""
    ELSE IF Len(seq) = 1 THEN seq[1]
    ELSE seq[1] \o sep \o Join(Tail(seq), sep)

AnalysisReply(lines, head, tail) ==
    [kind |-> "analysis", lines |-> lines,
     text |-> head \o "RELEVANT_FILES:\n" \o Join(lines, "\n") \o tail]

AnalysisReplies ==
    {AnalysisReply([k \in 1..n |-> LineAt(shape, k)], head, tail) :
        n \in 0..MaxFileLines, shape \in {"plain", "noisy", "indented"},
        head \in {"REASONING:\nwhy\n\n", ""},
        tail \in {"\n\nCONFIDENCE: High", ""}}
    \cup {[kind |-> "analysis", lines |-> <<>>, text |-> t] :
            t \in {"", "I cannot tell.", "confidence: LOW\nREASONING: none"}}

InitParse ==
    /\ currentConnection = Null
    /\ handlers = [i \in Slots |-> Idle]
    /\ fsys = Null
    /\ chat = ChatIdle
    /\ scan = ScanIdle
    /\ parse \in {[pc |-> "idle", reply |-> r] : r \in ResponseReplies \cup AnalysisReplies}

\* processDocumentRequest / processWithSelectedFiles read the reply
ParseResponse(action) ==
    /\ parse.pc = "idle"
    /\ parse.reply.kind = "response"
    /\ parse' = [pc |-> "done", reply |-> parse.reply, action |-> action,
                 out |-> ParseAIResponse(parse.reply.text, action)]
    /\ UNCHANGED <<currentConnection, handlers, fsys, chat, scan>>

\* analyzeCodebaseForTask reads the reply
ParseAnalysis ==
    /\ parse.pc = "idle"
    /\ parse.reply.kind = "analysis"
    /\ parse' = [pc |-> "done", reply |-> parse.reply, action |-> "analyze_codebase",
                 out |-> ParseFileAnalysis(parse.reply.text)]
    /\ UNCHANGED <<currentConnection, handlers, fsys, chat, scan>>

NextParse ==
    \/ \E action \in ParsedActions : ParseResponse(action)
    \/ ParseAnalysis

SpecParse == InitParse /\ [][NextParse]_vars

-----------------------------------------------------------------------------
(* Properties of the reply parsers *)

Parsed(kind) == parse.pc = "done" /\ parse.reply.kind = kind

\* the text from just after the first EXPLANATION: up to the next CONTENT: or the end
BetweenMarkers(text) ==
    LET from  == IndexFrom(text, "EXPLANATION:", 1) + Len("EXPLANATION:")
        stops == Occurrences(text, "CONTENT:", from)
    IN  SubSeq(text, from, IF stops = {} THEN Len(text) ELSE MinOf(stops) - 1)

\* <<c, o, f>>: a CONTENT: at c, then only white space, then an opening markdown
\* fence at o, and a closing fence at f after it
FencedBlocks(text) ==
    UNION {UNION {{<<c, o, f>> : f \in Occurrences(text, Fence, o + Len(Fence \o "markdown"))} :
                  o \in {p \in Occurrences(text, Fence \o "markdown", c + Len("CONTENT:")) :
                            Trim(SubSeq(text, c + Len("CONTENT:"), p - 1)) = ""}} :
           c \in Occurrences(text, "CONTENT:", 1)}

\* the body of the first fenced block: up to the first fence that closes it
FirstFenceBody(text) ==
    LET first == CHOOSE b \in FencedBlocks(text) :
                     \A d \in FencedBlocks(text) : b[1] < d[1] \/ (b[1] = d[1] /\ b[3] <= d[3])
    IN  SubSeq(text, first[2] + Len(Fence \o "markdown"), first[3] - 1)

\* C9: for action chat the explanation is the whole text and there is no content;
\* for the other actions the explanation is the trimmed text between the first
\* EXPLANATION: and the next CONTENT: (or the end), the whole text when there is no
\* EXPLANATION:, and the content is the trimmed body of the markdown fence that
\* follows CONTENT:, absent when there is no such fence.
C9_ResponseParser ==
    Parsed("response") =>
        LET text == parse.reply.text
            out  == parse.out
        IN  IF parse.action = "chat"
            THEN out.explanation = text /\ ~out.content.present
            ELSE /\ out.explanation =
                        IF Includes(text, "EXPLANATION:") THEN Trim(BetweenMarkers(text))
                        ELSE text
                 /\ out.content.present = (FencedBlocks(text) # {})
                 /\ out.content.present => out.content.text = Trim(FirstFenceBody(text))
                 /\ (~Includes(text, "EXPLANATION:") /\ ~Includes(text, "CONTENT:"))
                        => (out.explanation = text /\ ~out.content.present)

\* a reply with both sections, surrounded by white space, has been parsed
C9_Witness ==
    /\ Parsed("response")
    /\ parse.action = "edit"
    /\ parse.reply.text = "EXPLANATION:\nDid X\n\nCONTENT:\n" \o Fence \o "markdown\n# Title\n" \o Fence
    /\ parse.out = [explanation |-> "Did X", content |-> Present("# Title")]

TrimAll(lines) == [k \in 1..Len(lines) |-> Trim(lines[k])]

FirstN(seq, n) == [k \in 1..(IF Len(seq) < n THEN Len(seq) ELSE n) |-> seq[k]]

NotBlank(line) == Trim(line) # ""

Unprefixed(line) == ~StartsWith(line, "[") /\ ~StartsWith(line, "//")

ListedAsWritten(line) == NotBlank(line) /\ Unprefixed(line)

ListedOnceTrimmed(line) == line # "" /\ Unprefixed(line)

\* C10 as stated: relevantFiles has at most 15 entries and is the first 15 (or
\* fewer) of the lines of the RELEVANT_FILES: section that are not blank and start
\* neither with "[" nor with "//", in their order.
C10_RelevantFilesAsClaimed ==
    Parsed("analysis") =>
        /\ Len(parse.out.relevantFiles) <= 15
        /\ parse.out.relevantFiles = FirstN(SelectSeq(parse.reply.lines, ListedAsWritten), 15)

\* C10, amended: relevantFiles has at most 15 entries and is the first 15 (or
\* fewer) of the trimmed lines of the RELEVANT_FILES: section that are not empty
\* and start neither with "[" nor with "//", in their order; twenty file lines
\* give exactly the first fifteen.
C10_RelevantFilesTrimmed ==
    Parsed("analysis") =>
        /\ Len(parse.out.relevantFiles) <= 15
        /\ parse.out.relevantFiles =
               FirstN(SelectSeq(TrimAll(parse.reply.lines), ListedOnceTrimmed), 15)
        /\ (Len(parse.reply.lines) = 20
               /\ \A k \in 1..20 : ListedOnceTrimmed(Trim(parse.reply.lines[k])))
               => parse.out.relevantFiles = FirstN(TrimAll(parse.reply.lines), 15)

\* a section with indented lines, bracketed lines and more than fifteen file lines
\* has been parsed
C10_Witness ==
    /\ Parsed("analysis")
    /\ Len(parse.reply.lines) = 20
    /\ parse.reply.lines[1] # Trim(parse.reply.lines[1])
    /\ \E k \in 1..20 : StartsWith(Trim(parse.reply.lines[k]), "[")
    /\ Len(parse.out.relevantFiles) = 15
    /\ parse.out.relevantFiles[15] = Trim(parse.reply.lines[18])

-----------------------------------------------------------------------------
(* POST /api/ai/chat: chatWithAI and the orchestrator of aiService. The text   *)
(* of a prompt template is left out of the model: a prompt is the template's    *)
(* name and the values the template embeds.                                     *)

\* selectedFiles of a request body: absent, or an array of paths
Unselected == [present |-> FALSE, paths |-> <<>>]

Selected(paths) == [present |-> TRUE, paths |-> paths]

\* the entry with the given name in a directory, Null when there is none
Child(dir, name) ==
    IF \E k \in DOMAIN dir.children : dir.children[k].name = name
    THEN dir.children[CHOOSE k \in DOMAIN dir.children : dir.children[k].name = name]
    ELSE Null

RECURSIVE Walk(_, _, _)
Walk(entry, segments, k) ==
    IF k > Len(segments) \/ entry = Null THEN entry
    ELSE IF segments[k] = "" THEN Walk(entry, segments, k + 1)
    ELSE IF entry.kind # "dir" THEN Null
    ELSE Walk(Child(entry, segments[k]), segments, k + 1)

\* what path.join(codebasePath, filePath) names on disk, Null when nothing
Resolve(root, filePath) ==
    IF root = Null THEN Null ELSE Walk(root, Split(filePath, "/"), 1)

\* what readFileSync returns for a file
FileText(entry) == "text of " \o entry.name

LanguageMap ==
    {<<".js", "javascript">>, <<".jsx", "jsx">>, <<".ts", "typescript">>,
     <<".tsx", "tsx">>, <<".py", "python">>, <<".java", "java">>, <<".cpp", "cpp">>,
     <<".c", "c">>, <<".h", "c">>, <<".cs", "csharp">>, <<".php", "php">>,
     <<".rb", "ruby">>, <<".go", "go">>, <<".rs", "rust">>, <<".swift", "swift">>,
     <<".kt", "kotlin">>, <<".scala", "scala">>, <<".json", "json">>,
     <<".yaml", "yaml">>, <<".yml", "yaml">>, <<".toml", "toml">>, <<".xml", "xml">>,
     <<".md", "markdown">>, <<".sql", "sql">>, <<".sh", "bash">>, <<".bat", "batch">>,
     <<".ps1", "powershell">>, <<".dockerfile", "dockerfile">>, <<".env", "bash">>}

\* getLanguageFromExtension(ext)
GetLanguageFromExtension(ext) ==
    IF \E r \in LanguageMap : r[1] = ext THEN Lookup(LanguageMap, ext) ELSE "text"

\* the size above which fetchFileContents skips a file
MaxFileBytes == 1048576

Placeholder(filePath, note) == "\nFILE: " \o filePath \o "\n[" \o note \o "]\n"

\* a turn of the loop that pushes a section only for a file it can read
FileSectionOnlyReadable(root, filePath) ==
    LET entry == Resolve(root, filePath)
    IN  IF entry # Null /\ entry.fails = "none" /\ entry.kind = "file"
           /\ entry.size <= MaxFileBytes
        THEN [ops |-> <<<<"existsSync", filePath>>, <<"statSync", filePath>>,
                        <<"readFileSync", filePath>>>>,
              text |-> "\nFILE: " \o filePath \o "\n" \o Fence
                           \o GetLanguageFromExtension(ToLowerCase(ExtName(filePath)))
                           \o "\n" \o FileText(entry) \o "\n" \o Fence \o "\n"]
        ELSE [ops |-> <<<<"existsSync", filePath>>>>, text |-> ""]

\* one turn of the loop of fetchFileContents: the file system calls it makes and
\* the section it pushes
FileSection(root, filePath) ==
    LET entry  == Resolve(root, filePath)
        exists == <<"existsSync", filePath>>
        stat   == <<"statSync", filePath>>
        read   == <<"readFileSync", filePath>>
    IN  IF entry = Null
        THEN [ops |-> <<exists>>, text |-> Placeholder(filePath, "Error: File not found")]
        ELSE IF entry.fails = "stat"
        THEN [ops |-> <<exists, stat>>,
              text |-> Placeholder(filePath, "Error: Could not read file content")]
        ELSE IF entry.kind = "dir"
        THEN [ops |-> <<exists, stat>>, text |-> Placeholder(filePath, "Directory - skipped")]
        ELSE IF entry.size > MaxFileBytes
        THEN [ops |-> <<exists, stat>>,
              text |-> Placeholder(filePath,
                           "File too large (" \o ToString((entry.size + 512) \div 1024)
                               \o "KB) - skipped")]
        ELSE IF entry.fails = "read"
        THEN [ops |-> <<exists, stat, read>>,
              text |-> Placeholder(filePath, "Error: Could not read file content")]
        ELSE [ops |-> <<exists, stat, read>>,
              text |-> "\nFILE: " \o filePath \o "\n" \o Fence
                           \o GetLanguageFromExtension(ToLowerCase(ExtName(filePath)))
                           \o "\n" \o FileText(entry) \o "\n" \o Fence \o "\n"]

RECURSIVE FileSections(_, _, _)
FileSections(root, filePaths, k) ==
    IF k > Len(filePaths) THEN [ops |-> <<>>, sections |-> <<>>]
    ELSE LET this == FileSection(root, filePaths[k])
             rest == FileSections(root, filePaths, k + 1)
         IN  [ops |-> this.ops \o rest.ops, sections |-> <<this.text>> \o rest.sections]

\* fetchFileContents(filePaths): the calls made and the joined bundle
FetchFileContents(root, filePaths) ==
    [ops |-> FileSections(root, filePaths, 1).ops,
     sections |-> FileSections(root, filePaths, 1).sections,
     bundle |-> Join(FileSections(root, filePaths, 1).sections, "\n")]

\* the line of a codebase file in the prompt of analyzeCodebaseForTask
FileLine(file) ==
    file.path \o " (" \o file.type
        \o (IF file.type = "file" /\ file.size # 0
            THEN ", " \o ToString(file.size) \o " bytes" ELSE "")
        \o ")"

FilesList(files) == Join([k \in DOMAIN files |-> FileLine(files[k])], "\n")

\* the prompt of an action: the template and what it embeds
Prompt(body, files) ==
    [template |-> body.action, message |-> body.message,
     currentContent |-> IF body.action \in {"generate", "analyze_codebase"} THEN ""
                        ELSE body.currentContent,
     filePath |-> IF body.filePath = "" /\ body.action \notin {"generate", "chat"}
                  THEN "Unknown" ELSE body.filePath,
     files |-> files]

ChatActions == {"edit", "generate", "chat", "analyze_codebase", "process_with_files"}

\* !message || !action
MissingFields(body) == body.message = "" \/ body.action = ""

\* a guard that lets an empty selection through
SelectionMissingUnlessEmpty(selectedFiles) == ~selectedFiles.present

\* !request.selectedFiles || request.selectedFiles.length === 0
SelectionMissing(selectedFiles) ==
    ~selectedFiles.present \/ Len(selectedFiles.paths) = 0

\* the catch of chatWithAI: every throw of the orchestrator carries this message
ProcessFailure(env) ==
    [status |-> 500,
     body |-> [success |-> FALSE, error |-> "Failed to process AI request",
               details |-> IF env = "development"
                           THEN Present("Failed to process AI request") ELSE Absent]]

FetchFailure ==
    [status |-> 500,
     body |-> [success |-> FALSE, error |-> "Failed to fetch codebase files",
               details |-> Present("Please ensure the codebase folder exists and contains files")]]

BadRequest(error) == [status |-> 400, body |-> [error |-> error]]

\* the handler has answered
Finished(body, env, ops, resp) ==
    [pc |-> "done", env |-> env, body |-> body, fsOps |-> ops, modelCalls |-> <<>>,
     resp |-> <<resp>>]

\* the handler waits for model.generateContent(prompt)
Awaiting(body, env, ops, prompt) ==
    [pc |-> "model", env |-> env, body |-> body, fsOps |-> ops,
     modelCalls |-> <<prompt>>, resp |-> <<>>]

\* chatWithAI up to its answer or to the call of the external model
ChatUntilModel(body, env, root) ==
    IF MissingFields(body)
    THEN Finished(body, env, <<>>,
                  BadRequest("Missing required fields: message and action are required"))
    ELSE IF body.action \notin ChatActions
    THEN Finished(body, env, <<>>,
                  BadRequest("Invalid action. Must be one of: edit, generate, chat, analyze_codebase, process_with_files"))
    ELSE IF body.action = "analyze_codebase"
    THEN IF CodebaseFolderMissing(root)
         THEN Finished(body, env, <<<<"existsSync", "">>>>, FetchFailure)
         ELSE Awaiting(body, env, <<<<"existsSync", "">>, <<"scanDirectory", "">>>>,
                       Prompt(body, FilesList(FetchCodebaseFiles(root))))
    ELSE IF body.action = "process_with_files"
    THEN IF SelectionMissing(body.selectedFiles)
         THEN Finished(body, env, <<>>, ProcessFailure(env))
         ELSE Awaiting(body, env, FetchFileContents(root, body.selectedFiles.paths).ops,
                       Prompt(body, FetchFileContents(root, body.selectedFiles.paths).bundle))
    ELSE Awaiting(body, env, <<>>, Prompt(body, ""))

\* the ChatResponse built from the model's reply
ChatResponse(body, text) ==
    IF body.action = "analyze_codebase"
    THEN [response |-> "I've analyzed your codebase and identified "
                           \o ToString(Len(ParseFileAnalysis(text).relevantFiles))
                           \o " files that would be most helpful for creating comprehensive technical documentation. Please review my suggestions below.",
          action |-> "analyze_codebase",
          fileAnalysis |-> ParseFileAnalysis(text),
          needsUserConfirmation |-> TRUE]
    ELSE IF body.action = "process_with_files"
    THEN [response |-> ParseAIResponse(text, "edit").explanation,
          suggestedContent |-> ParseAIResponse(text, "edit").content,
          action |-> "process_with_files"]
    ELSE [response |-> ParseAIResponse(text, body.action).explanation,
          suggestedContent |-> ParseAIResponse(text, body.action).content,
          action |-> body.action]

\* POST /api/ai/chat arrives
ChatStart(body, env) ==
    /\ chat.pc = "idle"
    /\ chat' = ChatUntilModel(body, env, fsys)
    /\ UNCHANGED <<currentConnection, handlers, fsys, scan, parse>>

\* model.generateContent settles and the handler answers
ChatResume(outcome) ==
    /\ chat.pc = "model"
    /\ chat' = [chat EXCEPT
                   !.pc = "done",
                   !.resp = Append(chat.resp,
                                   IF outcome.ok
                                   THEN [status |-> 200,
                                         body |-> [success |-> TRUE,
                                                   data |-> ChatResponse(chat.body, outcome.text)]]
                                   ELSE ProcessFailure(chat.env))]
    /\ UNCHANGED <<currentConnection, handlers, fsys, scan, parse>>

\* the connection is reused for the next request
ChatRecycle ==
    /\ chat.pc = "done"
    /\ chat' = ChatIdle
    /\ UNCHANGED <<currentConnection, handlers, fsys, scan, parse>>

-----------------------------------------------------------------------------
(* The chat endpoint on its own *)

\* a codebase root with a readable file, a folder, a file above the size limit
\* and entries whose stat or read fails
ChatTree ==
    Folder("codebase",
           <<File("README.md", 120),
             Folder("src", <<File("index.ts", 300)>>),
             File("big.bin", 2 * MaxFileBytes),
             Failing(File("locked.txt", 10), "read"),
             Failing(File("gone.ts", 10), "stat")>>)

\* Null: the codebase root does not exist
ChatTrees == {Null, ChatTree, Folder("codebase", <<>>)}

SelectedInputs ==
    {Unselected, Selected(<<>>), Selected(<<"README.md">>),
     Selected(<<"src/index.ts", "missing.md">>),
     Selected(<<"src", "big.bin", "locked.txt", "gone.ts", "README.md">>)}

\* request bodies; "" stands for an absent or empty string field
ChatBodies ==
    {[message |-> m, action |-> a, selectedFiles |-> s, currentContent |-> "# Doc",
      filePath |-> p] :
        m \in {"", "Document the API"},
        a \in ChatActions \cup {"", "delete"},
        s \in SelectedInputs,
        p \in {"", "docs/api.md"}}

\* NODE_ENV
Environments == {"development", "production"}

ChatReplies ==
    {"EXPLANATION:\nDid X\n\nCONTENT:\n" \o Fence \o "markdown\n# Title\n" \o Fence,
     "Hello.",
     "REASONING:\nwhy\n\nRELEVANT_FILES:\nREADME.md\nsrc/index.ts\n\nCONFIDENCE: high"}

\* how model.generateContent settles: a reply, or a throw
ModelOutcomes ==
    {[ok |-> TRUE, text |-> t] : t \in ChatReplies} \cup {[ok |-> FALSE, text |-> ""]}

InitChat ==
    /\ currentConnection = Null
    /\ handlers = [i \in Slots |-> Idle]
    /\ fsys \in ChatTrees
    /\ chat = ChatIdle
    /\ scan = ScanIdle
    /\ parse = ParseIdle

NextChat ==
    \/ \E body \in ChatBodies, env \in Environments : ChatStart(body, env)
    \/ \E outcome \in ModelOutcomes : ChatResume(outcome)
    \/ ChatRecycle

SpecChat == InitChat /\ [][NextChat]_vars

\* GEMINI_API_KEY as the process finds it after dotenv; "" stands for unset
ApiKeys == {"", "AIza-key"}

\* index.ts is evaluating its imports
Loading == [pc |-> "load"]

\* an import threw: the process exited before app.listen
Down == [pc |-> "down"]

\* the constructor of AIService
NewAIService(apiKey) == IF apiKey = "" THEN Down ELSE ChatIdle

\* aiService.ts is required through routes/ai and the controller: its last
\* statement constructs the service, outside every try
Load(apiKey) ==
    /\ chat.pc = "load"
    /\ chat' = NewAIService(apiKey)
    /\ UNCHANGED <<currentConnection, handlers, fsys, scan, parse>>

InitLoad ==
    /\ currentConnection = Null
    /\ handlers = [i \in Slots |-> Idle]
    /\ fsys \in ChatTrees
    /\ chat = Loading
    /\ scan = ScanIdle
    /\ parse = ParseIdle

NextLoad ==
    \/ \E apiKey \in ApiKeys : Load(apiKey)
    \/ NextChat

\* the chat endpoint from the start of the process
SpecLoad == InitLoad /\ [][NextLoad]_vars

-----------------------------------------------------------------------------
(* Properties of the chat endpoint *)

\* the request in hand is a well-formed process_with_files with nothing selected
NothingSelected ==
    /\ chat.pc # "idle"
    /\ chat.body.message # ""
    /\ chat.body.action = "process_with_files"
    /\ (~chat.body.selectedFiles.present \/ chat.body.selectedFiles.paths = <<>>)

\* C4: a process_with_files request whose selectedFiles is empty or absent fails,
\* and up to that failure no file of the codebase root is stat-ed or read and the
\* external model is not called.
C4_NothingSelectedFailsEarly ==
    NothingSelected =>
        /\ chat.pc = "done"
        /\ Len(chat.resp) = 1
        /\ chat.resp[1].status = 500
        /\ chat.resp[1].body.success = FALSE
        /\ chat.fsOps = <<>>
        /\ chat.modelCalls = <<>>

\* an empty selection was refused although the codebase root has files
C4_Witness ==
    /\ NothingSelected
    /\ chat.body.selectedFiles = Selected(<<>>)
    /\ fsys = ChatTree
    /\ chat.pc = "done"
    /\ chat.resp[1].body.error = "Failed to process AI request"

\* the request in hand is a well-formed analyze_codebase and the root is missing
AnalysisWithoutRoot ==
    /\ chat.pc # "idle"
    /\ chat.body.message # ""
    /\ chat.body.action = "analyze_codebase"
    /\ fsys = Null

\* C15: an analyze_codebase request made while the codebase root does not exist
\* ends in an error response (500, success = false), never in a result built
\* from an empty file list, and the external model is not called for it.
C15_MissingRootIsAnError ==
    AnalysisWithoutRoot =>
        /\ chat.pc = "done"
        /\ Len(chat.resp) = 1
        /\ chat.resp[1].status = 500
        /\ chat.resp[1].body.success = FALSE
        /\ chat.modelCalls = <<>>

\* the analysis of a missing root was answered 'Failed to fetch codebase files'
C15_Witness ==
    /\ AnalysisWithoutRoot
    /\ chat.pc = "done"
    /\ chat.resp[1].status = 500
    /\ chat.resp[1].body.error = "Failed to fetch codebase files"
    /\ chat.fsOps = <<<<"existsSync", "">>>>

\* the request in hand is a well-formed process_with_files with files selected
FilesSelected ==
    /\ chat.pc # "idle"
    /\ chat.body.message # ""
    /\ chat.body.action = "process_with_files"
    /\ chat.body.selectedFiles.present
    /\ chat.body.selectedFiles.paths # <<>>

\* the k-th of the ordered positions in S
Nth(S, k) == CHOOSE p \in S : Cardinality({q \in S : q <= p}) = k

\* what the section of a selected path is to hold after its label: a fenced body
\* for a readable file, a bracketed note otherwise
SectionBody(root, filePath) ==
    LET entry == Resolve(root, filePath)
    IN  IF entry = Null THEN "[Error: File not found]"
        ELSE IF entry.fails = "stat" THEN "[Error: Could not read file content]"
        ELSE IF entry.kind = "dir" THEN "[Directory - skipped]"
        ELSE IF entry.size > 1048576 THEN "[File too large ("
        ELSE IF entry.fails # "none" THEN "[Error: Could not read file content]"
        ELSE Fence

\* C16: for a process_with_files request with a non-empty selectedFiles the bundle
\* sent to the model has exactly one labelled section per selected path, in the
\* order of selectedFiles; a path that is missing, a directory, larger than 1 MiB
\* or unreadable contributes a placeholder section, and the model is called once.
C16_OneSectionPerSelectedPath ==
    FilesSelected =>
        LET paths  == chat.body.selectedFiles.paths
            bundle == chat.modelCalls[1].files
            labels == Occurrences(bundle, "\nFILE: ", 1)
        IN  /\ Len(chat.modelCalls) = 1
            /\ Cardinality(labels) = Len(paths)
            /\ \A k \in DOMAIN paths :
                  At(bundle, Nth(labels, k),
                     "\nFILE: " \o paths[k] \o "\n" \o SectionBody(fsys, paths[k]))
            /\ chat.pc = "done" => Len(chat.resp) = 1

\* a selection of a folder, an oversized file, two unreadable files and a readable
\* one went to the model as five sections
C16_Witness ==
    /\ FilesSelected
    /\ fsys = ChatTree
    /\ chat.pc = "model"
    /\ Len(chat.body.selectedFiles.paths) = 5
    /\ Cardinality(Occurrences(chat.modelCalls[1].files, "\nFILE: ", 1)) = 5
    /\ Includes(chat.modelCalls[1].files, "[Directory - skipped]")
    /\ Includes(chat.modelCalls[1].files, "[File too large (2048KB) - skipped]")
    /\ Includes(chat.modelCalls[1].files, "text of README.md")

(* C17: a listTree or getFileContent upstream call that fails without any HTTP   *)
(* response (network failure, timeout) is answered 500 'Internal server error',  *)
(* not 'GitLab API error'.                                                       *)
C17_NoResponseIsInternalError ==
    \A i \in Slots :
        (/\ handlers[i].op \in {"files", "content"} /\ handlers[i].pc = "done"
         /\ handlers[i].outcome # Null
         /\ handlers[i].outcome.kind \in {"network", "timeout"}) =>
            Answered(handlers[i], 500, "Internal server error")

\* the answer of the chat handler is the generic failure
GenericFailure(c) ==
    /\ c.pc = "done"
    /\ Len(c.resp) = 1
    /\ c.resp[1].status = 500
    /\ c.resp[1].body.success = FALSE
    /\ c.resp[1].body.error = "Failed to process AI request"

(* C18: any failure of the external model call, for any of the five actions and  *)
(* including the failure raised because the model API key is not configured, is  *)
(* caught and reaches the caller of POST /api/ai/chat as 500 'Failed to process  *)
(* AI request'; the model is called at most once per request and the process     *)
(* keeps serving requests.                                                       *)
C18_ModelFailureIsCaught ==
    [][/\ chat'.pc # "down"
       /\ chat'.pc \in {"model", "done"} => Len(chat'.modelCalls) <= 1
       /\ \A outcome \in ModelOutcomes :
             (~outcome.ok /\ ChatResume(outcome)) => GenericFailure(chat')]_vars

\* the URL of a record passes the validation as the specification words it
StoredUrlIsValid(conn) ==
    /\ ParseUrl(conn.repoUrl) # Null
    /\ ParseUrl(conn.repoUrl).protocol = "https:"
    /\ Includes(ParseUrl(conn.repoUrl).hostname, "gitlab")

\* the token of a record passes the validation as the specification words it
StoredTokenIsValid(conn) ==
    /\ conn.accessToken # ""
    /\ Len(conn.accessToken) >= 10

(* C19: whenever a ConnectionRecord exists, its repositoryUrl uses the https     *)
(* scheme and its host contains the marker 'gitlab', and its stored accessToken  *)
(* is non-empty with length >= 10.                                               *)
C19_StoredRecordIsValid ==
    currentConnection # Null =>
        /\ StoredUrlIsValid(currentConnection)
        /\ StoredTokenIsValid(currentConnection)

(* C20: while a record stored by a successful connect exists, a listTree request *)
(* and a getFileContent request with a non-empty file path are never answered    *)
(* 400: every URL that connect accepts yields a non-empty project id, so the     *)
(* request proceeds to exactly one upstream call.                                *)
C20_AcceptedUrlHasProjectId ==
    [][\A i \in Slots :
        (/\ currentConnection # Null
         /\ \/ Handles(i, "files")
            \/ Handles(i, "content") /\ handlers'[i].path # "") =>
            /\ ExtractProjectIdFromUrl(currentConnection.repoUrl) # ""
            /\ handlers'[i].pc = "await"
            /\ handlers'[i].resp = <<>>
            /\ Len(handlers'[i].calls) = 1
      ]_vars

-----------------------------------------------------------------------------
(* All five endpoints of one process, their requests interleaved at the awaits.  *)
(* Node runs a handler from the request to its first await, and from the         *)
(* settling of the awaited call to the end, without interruption; the inputs     *)
(* are the ones that tell the paths of each handler apart.                       *)

ServeBodies ==
    {b \in ConcBodies : b.repoUrl = "https://gitlab.com/grp/proj"}

ServeProbeOutcomes == {o \in ProbeOutcomes : o.kind \in {"ok", "network"}}

ServeTreeOutcomes == {o \in ConcTreeOutcomes : o.kind \in {"ok", "network"}}

ServeRawOutcomes ==
    {o \in ConcRawOutcomes : o.kind = "http" \/ (o.kind = "ok" /\ o.data # "")}

ServeChatBodies ==
    {b \in ChatBodies :
        /\ b.filePath = ""
        /\ \/ b.action = "chat" /\ b.selectedFiles = Unselected
           \/ b.action = "process_with_files" /\ b.message # ""
                /\ b.selectedFiles \in {Unselected, Selected(<<"README.md">>)}}

ServeModelOutcomes == {o \in ModelOutcomes : o.text \in {"", "Hello."}}

InitServe ==
    /\ currentConnection = Null
    /\ handlers = [i \in Slots |-> Idle]
    /\ fsys = ChatTree
    /\ chat = ChatIdle
    /\ scan = ScanIdle
    /\ parse = ParseIdle

\* the settling of the outbound call slot i waits for
Settle(i) ==
    \/ \E outcome \in ServeProbeOutcomes : ConnectResume(i, outcome)
    \/ \E outcome \in ServeTreeOutcomes : FilesResume(i, outcome)
    \/ \E outcome \in ServeRawOutcomes : ContentResume(i, outcome)

\* the settling of model.generateContent
SettleModel == \E outcome \in ServeModelOutcomes : ChatResume(outcome)

NextServe ==
    \/ \E i \in Slots, body \in ServeBodies : ConnectStart(i, body)
    \/ \E i \in Slots : Disconnect(i)
    \/ \E i \in Slots : FilesStart(i, "")
    \/ \E i \in Slots : ContentStart(i, "README.md")
    \/ \E i \in Slots : Settle(i)
    \/ \E i \in Slots : Recycle(i)
    \/ \E body \in ServeChatBodies : ChatStart(body, "production")
    \/ SettleModel
    \/ ChatRecycle

\* every outbound call returns, fails or times out, and the event loop then runs
\* the continuation that waits for it
SpecServe ==
    /\ InitServe
    /\ [][NextServe]_vars
    /\ \A i \in Slots : WF_vars(Settle(i))
    /\ WF_vars(SettleModel)

\* the responses sent so far for the request in slot i, and for the chat request
Sent(i) == handlers[i].resp

SentByChat == IF chat.pc = "idle" THEN <<>> ELSE chat.resp

\* a request that has run to its end has one response, one that waits for its
\* outbound call has none
OneAnswer ==
    /\ \A i \in Slots :
          /\ handlers[i].pc = "done" => Len(Sent(i)) = 1
          /\ handlers[i].pc = "await" => Len(Sent(i)) = 0 /\ Len(handlers[i].calls) = 1
          /\ handlers[i].pc = "idle" => Len(Sent(i)) = 0
    /\ chat.pc = "done" => Len(SentByChat) = 1
    /\ chat.pc = "model" => Len(SentByChat) = 0 /\ Len(chat.modelCalls) = 1

\* a step that ends the wait of a request is the step that answers it
WaitEndsInAnswer ==
    /\ \A i \in Slots :
          handlers[i].pc = "await" /\ handlers'[i] # handlers[i] =>
              /\ handlers'[i].pc = "done"
              /\ handlers'[i].op = handlers[i].op
              /\ Len(handlers'[i].resp) = 1
    /\ chat.pc = "model" /\ chat' # chat =>
          /\ chat'.pc = "done"
          /\ chat'.body = chat.body
          /\ Len(chat'.resp) = 1

(* C21: every request to connect, disconnect, listTree, getFileContent or chat   *)
(* is answered exactly once: no handler path sends two responses, and, provided  *)
(* each outbound call it made eventually returns, fails or times out, the        *)
(* request eventually receives its response, under every interleaving with      *)
(* other requests.                                                               *)
(* A request stops waiting only by being answered, so "it is not left waiting    *)
(* for ever" is "it eventually receives its response".                           *)
C21_AnsweredExactlyOnce ==
    /\ []OneAnswer
    /\ [][WaitEndsInAnswer]_vars
    /\ \A i \in Slots : []<>(handlers[i].pc # "await")
    /\ []<>(chat.pc # "model")

\* a connect was answered after a disconnect had run during its probe, while a
\* listTree and a chat request still wait for their calls
C21_Witness ==
    /\ handlers[1].op = "connect" /\ handlers[1].pc = "done"
    /\ Len(Sent(1)) = 1 /\ Sent(1)[1].status = 500
    /\ handlers[2].op = "files" /\ handlers[2].pc = "await"
    /\ chat.pc = "model"

=============================================================================
